---- MODULE Spec2Model ----
(***************************************************************************)
(* Workflow dependency graph of the month-end close manager: periods,      *)
(* tasks, task templates, the two dependency tables and the audit log, as  *)
(* written by the routers in backend/routers (tasks.py, task_templates.py, *)
(* periods.py) over the tables of backend/models.py.                       *)
(***************************************************************************)
EXTENDS Integers, Sequences, FiniteSets, TLC

\* ------------------------------------------------------------------ bounds
\* Ids the tasks / task_templates / periods sequences hand out.
MaxTaskId == 3
MaxTemplateId == 2
MaxPeriodId == 2
\* Longest dependency_ids list a request carries.
MaxCands == 2
\* Rows the audit_logs table holds.
MaxAudit == 2
\* Months a period is created for.
MaxMonth == 2
\* Rows the audit_logs table holds where all the task operations run.
TasksMaxAudit == 1
\* Templates, and rows of template_dependencies, before a roll-forward.
RollTemplates == 3
RollMaxEdges == 2
\* Years of the periods whose due dates are computed: FirstYear..LastYear and
\* the two century years; days_offset in -MaxOffset..MaxOffset and +-LongOffset.
FirstYear == 2023
LastYear == 2025
CenturyYear == 2100
LeapCenturyYear == 2000
MaxOffset == 3
LongOffset == 31
\* Tasks on the dashboard.
DashTasks == 3
MaxClock == 3

VARIABLES
    periods,    \* periods table: id -> [month, close_type]
    tasks,      \* tasks table: id -> [period_id, template_id] (0 = NULL)
    deps,       \* task_dependencies rows <<task_id, depends_on_id>>
    templates,  \* task_templates table: id -> [close_type, is_active]
    tdeps,      \* task_template_dependencies rows <<template_id, depends_on_id>>
    audit,      \* audit_logs rows in insertion order
    nextId,     \* next value of each table's id sequence
    last        \* the last request and its response

vars == <<periods, tasks, deps, templates, tdeps, audit, nextId, last>>
db == <<periods, tasks, deps, templates, tdeps, audit, nextId>>

CloseType == {"monthly", "quarterly"}

\* ----------------------------------------------------------------- helpers
Min(S) == CHOOSE x \in S : \A y \in S : x <= y

RECURSIVE sorted(_)
\* sorted(iterable) of a set of ids, ascending.
sorted(S) == IF S = {} THEN <<>> ELSE <<Min(S)>> \o sorted(S \ {Min(S)})

Range(s) == {s[i] : i \in 1..Len(s)}

RECURSIVE Insert(_, _)
Insert(x, s) ==
    IF s = <<>> THEN <<x>>
    ELSE IF x <= Head(s) THEN <<x>> \o s
    ELSE <<Head(s)>> \o Insert(x, Tail(s))

RECURSIVE sorted_list(_)
\* sorted(list): ascending, repeated ids kept.
sorted_list(s) == IF s = <<>> THEN <<>> ELSE Insert(Head(s), sorted_list(Tail(s)))

\* Request bodies: lists of at most MaxCands ids, over the ids a table's
\* sequence has handed out and the next one, which no row has yet.
IdLists(next) == UNION {[1..n -> 1..next] : n \in 0..MaxCands}

\* task.dependencies / template.dependencies of row n in edge table E.
dependencies(E, n) == {e[2] : e \in {x \in E : x[1] = n}}

\* An id appended twice to a relationship collection that did not hold it
\* before: the flush INSERTs the same association row twice and the composite
\* primary key of the association table rejects it (IntegrityError).
DuplicateInsert(ids, existing, old) ==
    \E i, j \in 1..Len(ids) :
        i < j /\ ids[i] = ids[j] /\ ids[i] \in existing /\ ids[i] \notin old

\* ------------------------------------------------------- graph predicates
RECURSIVE ReachableFrom(_, _)
\* Nodes reachable from the set S through one or more edges of E: S grows
\* until closed.
ReachableFrom(E, S) ==
    LET nxt == S \cup {e[2] : e \in {x \in E : x[1] \in S}}
    IN  IF nxt = S THEN S ELSE ReachableFrom(E, nxt)

Reaches(E, a, b) == b \in ReachableFrom(E, dependencies(E, a))

Acyclic(E) == \A e \in E : ~Reaches(E, e[1], e[1])

\* ------------------------------------------------------------- cycle guard
\* A guard that looks only at the candidate and its direct dependencies.
has_circular_dependency_shallow(nodes, E, id, target_id, visited) ==
    [found |-> id = target_id \/ (id \in nodes /\ target_id \in dependencies(E, id)),
     visited |-> visited \cup {id}]

\* A guard that compares only the nodes below the candidate with the target.
has_circular_dependency_below(nodes, E, id, target_id, visited) ==
    [found |-> id \in nodes /\ Reaches(E, id, target_id),
     visited |-> visited \cup {id}]

RECURSIVE has_circular_dependency(_, _, _, _, _)
RECURSIVE has_circular_dependency_loop(_, _, _, _, _)
\* The nested has_circular_dependency of update_task_dependencies and of
\* update_template_dependencies: depth-first over .dependencies with one
\* visited set shared by the whole search.  nodes / E are the table and the
\* edge table it walks; the result carries the visited set as it is left.
has_circular_dependency(nodes, E, id, target_id, visited) ==
    IF id = target_id THEN [found |-> TRUE, visited |-> visited]
    ELSE IF id \in visited THEN [found |-> FALSE, visited |-> visited]
    ELSE IF id \notin nodes THEN [found |-> FALSE, visited |-> visited \cup {id}]
    ELSE has_circular_dependency_loop(nodes, E, sorted(dependencies(E, id)),
                                      target_id, visited \cup {id})

has_circular_dependency_loop(nodes, E, ds, target_id, visited) ==
    IF ds = <<>> THEN [found |-> FALSE, visited |-> visited]
    ELSE LET r == has_circular_dependency(nodes, E, Head(ds), target_id, visited)
         IN  IF r.found THEN r
             ELSE has_circular_dependency_loop(nodes, E, Tail(ds), target_id, r.visited)

Max(S) == CHOOSE x \in S : \A y \in S : x >= y

\* A validation loop that goes on after a hit and reports the last one.
last_circular(nodes, E, dependency_ids, id) ==
    LET bad == {i \in 1..Len(dependency_ids) :
                  has_circular_dependency(nodes, E, dependency_ids[i], id, {}).found}
    IN  IF bad = {} THEN 0 ELSE Max(bad)

\* Index of the first dependency id the validation loop rejects, 0 if none.
first_circular(nodes, E, dependency_ids, id) ==
    LET bad == {i \in 1..Len(dependency_ids) :
                  has_circular_dependency(nodes, E, dependency_ids[i], id, {}).found}
    IN  IF bad = {} THEN 0 ELSE Min(bad)

\* ------------------------------------------- the cycle guard, call by call
\* One top-level has_circular_dependency(start, target_id) as the interpreter
\* runs it.  `last` holds the call in progress: calling is the id the next
\* call is made on, stack the frames that are inside their for loop (todo =
\* the dependencies the loop has not reached yet, in whatever order the
\* collection was loaded), ret the value the call that just ended returned,
\* expanded the ids whose row was queried, in order.
Search(start, target_id) ==
    [op |-> "has_circular_dependency", start |-> start, target_id |-> target_id,
     calling |-> <<start>>, stack |-> <<>>, visited |-> {}, expanded |-> <<>>,
     ret |-> <<>>]

Searching == last.op = "has_circular_dependency"

Returned == Searching /\ last.calling = <<>> /\ last.stack = <<>> /\ last.ret # <<>>

\* A guard without the visited test.
search_enter_unguarded(id) ==
    IF id = last.target_id THEN [last EXCEPT !.calling = <<>>, !.ret = <<TRUE>>]
    ELSE IF id \notin DOMAIN tasks
         THEN [last EXCEPT !.calling = <<>>, !.ret = <<FALSE>>,
                           !.expanded = Append(@, id)]
    ELSE [last EXCEPT !.calling = <<>>, !.expanded = Append(@, id),
                      !.stack = Append(@, [id |-> id, todo |-> dependencies(deps, id)])]

\* The body of a call up to its for loop: the two early returns, visited.add,
\* the query for the row and the return for a row that does not exist.
search_enter(id) ==
    IF id = last.target_id THEN [last EXCEPT !.calling = <<>>, !.ret = <<TRUE>>]
    ELSE IF id \in last.visited THEN [last EXCEPT !.calling = <<>>, !.ret = <<FALSE>>]
    ELSE IF id \notin DOMAIN tasks
         THEN [last EXCEPT !.calling = <<>>, !.ret = <<FALSE>>,
                           !.visited = @ \cup {id}, !.expanded = Append(@, id)]
    ELSE [last EXCEPT !.calling = <<>>,
                      !.visited = @ \cup {id}, !.expanded = Append(@, id),
                      !.stack = Append(@, [id |-> id, todo |-> dependencies(deps, id)])]

SearchEnter ==
    /\ Searching /\ last.calling # <<>>
    /\ last' = search_enter(last.calling[1])
    /\ UNCHANGED db

\* The for loop of the innermost frame reaches its next dependency.
SearchNext ==
    /\ Searching /\ last.calling = <<>> /\ last.ret = <<>> /\ last.stack # <<>>
    /\ LET n == Len(last.stack)
       IN  \E dep \in last.stack[n].todo :
              last' = [last EXCEPT !.calling = <<dep>>, !.stack[n].todo = @ \ {dep}]
    /\ UNCHANGED db

\* The for loop of the innermost frame is over: return False.
SearchExhausted ==
    /\ Searching /\ last.calling = <<>> /\ last.ret = <<>> /\ last.stack # <<>>
    /\ last.stack[Len(last.stack)].todo = {}
    /\ last' = [last EXCEPT !.stack = SubSeq(@, 1, Len(@) - 1), !.ret = <<FALSE>>]
    /\ UNCHANGED db

\* A call returned into the for loop of its caller: True is returned on,
\* False lets the loop go on.
SearchReturn ==
    /\ Searching /\ last.ret # <<>> /\ last.stack # <<>>
    /\ last' = IF last.ret[1]
               THEN [last EXCEPT !.stack = SubSeq(@, 1, Len(@) - 1)]
               ELSE [last EXCEPT !.ret = <<>>]
    /\ UNCHANGED db

\* ------------------------------------------------------------ audit log
log_task_change(task_id, action, old_value, new_value) ==
    Append(audit, [task_id |-> task_id, action |-> action,
                   old_value |-> old_value, new_value |-> new_value])

Response(op, id, cands, status, detail) ==
    [op |-> op, id |-> id, cands |-> cands, status |-> status, detail |-> detail]

NoRequest == Response("none", 0, <<>>, 0, 0)

\* An edit that appends without clearing the collection first.
append_dependencies(E, id, found) == E \cup {<<id, d>> : d \in found}

\* An edit that clears every association row its task takes part in.
replace_dependencies_both_sides(E, id, found) ==
    {e \in E : e[1] # id /\ e[2] # id} \cup {<<id, d>> : d \in found}

\* node.dependencies = [] followed by one append per dependency row found.
replace_dependencies(E, id, found) ==
    {e \in E : e[1] # id} \cup {<<id, d>> : d \in found}

\* ------------------------------------------- PUT /api/tasks/{id}/dependencies
update_task_dependencies(task_id, dependency_ids) ==
    LET op == "update_task_dependencies"
        bad == first_circular(DOMAIN tasks, deps, dependency_ids, task_id)
        old == dependencies(deps, task_id)
        old_dependency_ids == sorted(old)
        found == Range(dependency_ids) \cap DOMAIN tasks
        new_dependency_ids == sorted_list(dependency_ids)
    IN  /\ \/ /\ task_id \notin DOMAIN tasks
              /\ last' = Response(op, task_id, dependency_ids, 404, 0)
              /\ UNCHANGED db
           \/ /\ task_id \in DOMAIN tasks
              /\ bad # 0
              /\ last' = Response(op, task_id, dependency_ids, 400, dependency_ids[bad])
              /\ UNCHANGED db
           \/ /\ task_id \in DOMAIN tasks
              /\ bad = 0
              /\ DuplicateInsert(dependency_ids, DOMAIN tasks, old)
              /\ last' = Response(op, task_id, dependency_ids, 500, 0)
              /\ UNCHANGED db
           \/ /\ task_id \in DOMAIN tasks
              /\ bad = 0
              /\ ~DuplicateInsert(dependency_ids, DOMAIN tasks, old)
              /\ deps' = replace_dependencies(deps, task_id, found)
              /\ audit' = IF old_dependency_ids # new_dependency_ids
                          THEN log_task_change(task_id, "dependencies_updated",
                                               old_dependency_ids, new_dependency_ids)
                          ELSE audit
              /\ last' = Response(op, task_id, dependency_ids, 200, 0)
              /\ UNCHANGED <<periods, tasks, templates, tdeps, nextId>>

UpdateTaskDependencies ==
    \E task_id \in 1..nextId.task, dependency_ids \in IdLists(nextId.task) :
        update_task_dependencies(task_id, dependency_ids)

\* ----------------------- PUT /api/tasks/{id}/dependencies, two server processes
\* Two requests, each in its own session and transaction on the same
\* database (the engine of database.py sets no isolation level, so every
\* statement reads what is committed when it runs).  `last` holds the two
\* requests: pc is "idle" before the request arrives, "start" when its task
\* was found, "checked" when the validation loop has passed and
\* task.dependencies was loaded into old, "done" after the answer.
Requests == 1..MaxPeriodId

IdleRequest ==
    [task_id |-> 0, dependency_ids |-> <<>>, pc |-> "idle", old |-> {}, status |-> 0]

Interleaved == last.op = "interleaved"

\* The request arrives and its task is found (lines 906-908).
tx_begin(r, task_id, dependency_ids) ==
    /\ Interleaved /\ last.reqs[r].pc = "idle"
    /\ task_id \in DOMAIN tasks
    /\ \A q \in Requests : last.reqs[q].task_id # task_id
    /\ last' = [last EXCEPT !.reqs[r] =
                   [IdleRequest EXCEPT !.task_id = task_id,
                                       !.dependency_ids = dependency_ids,
                                       !.pc = "start"]]
    /\ UNCHANGED db

\* The validation loop over what is committed now, then the load of
\* task.dependencies (lines 929-938).
tx_check(r) ==
    LET req == last.reqs[r]
        bad == first_circular(DOMAIN tasks, deps, req.dependency_ids, req.task_id)
    IN  /\ Interleaved /\ req.pc = "start"
        /\ last' = IF bad # 0
                   THEN [last EXCEPT !.reqs[r].pc = "done", !.reqs[r].status = 400]
                   ELSE [last EXCEPT !.reqs[r].pc = "checked",
                                     !.reqs[r].old = dependencies(deps, req.task_id)]
        /\ UNCHANGED db

\* The replacement, the audit row and the commit (lines 941-959): the flush
\* deletes the association rows of the loaded collection and inserts the new
\* ones.
tx_commit(r) ==
    LET req == last.reqs[r]
        found == Range(req.dependency_ids) \cap DOMAIN tasks
        old_dependency_ids == sorted(req.old)
        new_dependency_ids == sorted_list(req.dependency_ids)
    IN  /\ Interleaved /\ req.pc = "checked"
        /\ \/ /\ DuplicateInsert(req.dependency_ids, DOMAIN tasks, req.old)
              /\ last' = [last EXCEPT !.reqs[r].pc = "done", !.reqs[r].status = 500]
              /\ UNCHANGED db
           \/ /\ ~DuplicateInsert(req.dependency_ids, DOMAIN tasks, req.old)
              /\ deps' = (deps \ {<<req.task_id, o>> : o \in req.old})
                             \cup {<<req.task_id, d>> : d \in found}
              /\ audit' = IF old_dependency_ids # new_dependency_ids
                          THEN log_task_change(req.task_id, "dependencies_updated",
                                               old_dependency_ids, new_dependency_ids)
                          ELSE audit
              /\ last' = [last EXCEPT !.reqs[r].pc = "done", !.reqs[r].status = 200]
              /\ UNCHANGED <<periods, tasks, templates, tdeps, nextId>>

TxBegin ==
    \E r \in Requests, task_id \in 1..MaxTaskId, dependency_ids \in IdLists(MaxTaskId) :
        tx_begin(r, task_id, dependency_ids)

TxCheck == \E r \in Requests : tx_check(r)

TxCommit == \E r \in Requests : tx_commit(r)

\* ------------------------------------------------------------ task templates
\* POST /api/task-templates/: the template is flushed before its dependencies
\* are looked up, so its own id is found too.  A sequence value drawn for a
\* row that is rolled back is not handed out again.
create_task_template(close_type, dependency_ids) ==
    LET op == "create_task_template"
        id == nextId.template
        nodes == DOMAIN templates \cup {id}
        found == Range(dependency_ids) \cap nodes
    IN  /\ nextId' = [nextId EXCEPT !.template = id + 1]
        /\ \/ /\ DuplicateInsert(dependency_ids, nodes, {})
              /\ last' = Response(op, id, dependency_ids, 500, 0)
              /\ UNCHANGED <<periods, tasks, deps, templates, tdeps, audit>>
           \/ /\ ~DuplicateInsert(dependency_ids, nodes, {})
              /\ templates' = templates @@ (id :> [close_type |-> close_type, is_active |-> TRUE])
              /\ tdeps' = tdeps \cup {<<id, d>> : d \in found}
              /\ last' = Response(op, id, dependency_ids, 201, 0)
              /\ UNCHANGED <<periods, tasks, deps, audit>>

CreateTaskTemplate ==
    \E close_type \in CloseType, dependency_ids \in IdLists(nextId.template) :
        create_task_template(close_type, dependency_ids)

\* PUT /api/task-templates/{id}: is_active is "unset" when the payload leaves
\* it out; given says whether the payload carries dependency_ids.
update_task_template(template_id, is_active, given, dependency_ids) ==
    LET op == "update_task_template"
        old == dependencies(tdeps, template_id)
        found == Range(dependency_ids) \cap DOMAIN templates
    IN  \/ /\ template_id \notin DOMAIN templates
           /\ last' = Response(op, template_id, dependency_ids, 404, 0)
           /\ UNCHANGED db
        \/ /\ template_id \in DOMAIN templates
           /\ given /\ DuplicateInsert(dependency_ids, DOMAIN templates, old)
           /\ last' = Response(op, template_id, dependency_ids, 500, 0)
           /\ UNCHANGED db
        \/ /\ template_id \in DOMAIN templates
           /\ ~(given /\ DuplicateInsert(dependency_ids, DOMAIN templates, old))
           /\ templates' = IF is_active = "unset" THEN templates
                           ELSE [templates EXCEPT ![template_id].is_active = (is_active = "true")]
           /\ tdeps' = IF given THEN replace_dependencies(tdeps, template_id, found) ELSE tdeps
           /\ last' = Response(op, template_id, dependency_ids, 200, 0)
           /\ UNCHANGED <<periods, tasks, deps, audit, nextId>>

UpdateTaskTemplate ==
    \E template_id \in 1..nextId.template, is_active \in {"unset", "true", "false"},
       given \in BOOLEAN, dependency_ids \in IdLists(nextId.template) :
        /\ ~given => dependency_ids = <<>>
        /\ update_task_template(template_id, is_active, given, dependency_ids)

\* A dependency edit for templates that runs no cycle check.
update_template_dependencies_unguarded(template_id, dependency_ids) ==
    update_task_template(template_id, "unset", TRUE, dependency_ids)

\* PUT /api/task-templates/{id}/dependencies
update_template_dependencies(template_id, dependency_ids) ==
    LET op == "update_template_dependencies"
        bad == first_circular(DOMAIN templates, tdeps, dependency_ids, template_id)
        old == dependencies(tdeps, template_id)
        found == Range(dependency_ids) \cap DOMAIN templates
    IN  \/ /\ template_id \notin DOMAIN templates
           /\ last' = Response(op, template_id, dependency_ids, 404, 0)
           /\ UNCHANGED db
        \/ /\ template_id \in DOMAIN templates
           /\ bad # 0
           /\ last' = Response(op, template_id, dependency_ids, 400, dependency_ids[bad])
           /\ UNCHANGED db
        \/ /\ template_id \in DOMAIN templates
           /\ bad = 0
           /\ DuplicateInsert(dependency_ids, DOMAIN templates, old)
           /\ last' = Response(op, template_id, dependency_ids, 500, 0)
           /\ UNCHANGED db
        \/ /\ template_id \in DOMAIN templates
           /\ bad = 0
           /\ ~DuplicateInsert(dependency_ids, DOMAIN templates, old)
           /\ tdeps' = replace_dependencies(tdeps, template_id, found)
           /\ last' = Response(op, template_id, dependency_ids, 200, 0)
           /\ UNCHANGED <<periods, tasks, deps, templates, audit, nextId>>

UpdateTemplateDependencies ==
    \E template_id \in 1..nextId.template, dependency_ids \in IdLists(nextId.template) :
        update_template_dependencies(template_id, dependency_ids)

\* A delete that empties only the dependencies side of the relationship.
delete_edges_dependent(E, D) == {e \in E : e[1] \notin D}

\* Rows of an association table left when the rows of D are deleted: the
\* ORM empties both sides of the relationship (dependencies and its backref)
\* and both foreign keys are ON DELETE CASCADE.
delete_edges(E, D) == {e \in E : e[1] \notin D /\ e[2] \notin D}

\* DELETE /api/task-templates/{id}: TaskTemplate.tasks has no cascade, so the
\* tasks created from the template stay, with template_id set to NULL.
delete_task_template(template_id) ==
    LET op == "delete_task_template"
    IN  \/ /\ template_id \notin DOMAIN templates
           /\ last' = Response(op, template_id, <<>>, 404, 0)
           /\ UNCHANGED db
        \/ /\ template_id \in DOMAIN templates
           /\ templates' = [t \in DOMAIN templates \ {template_id} |-> templates[t]]
           /\ tdeps' = delete_edges(tdeps, {template_id})
           /\ tasks' = [t \in DOMAIN tasks |->
                          IF tasks[t].template_id = template_id
                          THEN [tasks[t] EXCEPT !.template_id = 0] ELSE tasks[t]]
           /\ last' = Response(op, template_id, <<>>, 204, 0)
           /\ UNCHANGED <<periods, deps, audit, nextId>>

DeleteTaskTemplate ==
    \E template_id \in 1..nextId.template : delete_task_template(template_id)

\* ------------------------------------------------------------------ periods
\* The active templates of a close type, which the roll-forward query selects.
roll_forward_templates(close_type) ==
    {t \in DOMAIN templates :
        templates[t].close_type = close_type /\ templates[t].is_active}

\* Orders in which a query without ORDER BY may return the rows of S.
RowOrders(S) ==
    {o \in [1..Cardinality(S) -> S] : \A i, j \in 1..Cardinality(S) : o[i] = o[j] => i = j}

\* A second pass that links each prerequisite's task to its dependent's task.
roll_forward_edges_reversed(template_to_task_map) ==
    {<<template_to_task_map[e[2]], template_to_task_map[e[1]]>> :
        e \in {x \in tdeps : x[1] \in DOMAIN template_to_task_map
                          /\ x[2] \in DOMAIN template_to_task_map}}

\* Second pass of the roll-forward: the task edges for the template edges whose
\* two ends are in template_to_task_map.
roll_forward_edges(template_to_task_map) ==
    {<<template_to_task_map[e[1]], template_to_task_map[e[2]]>> :
        e \in {x \in tdeps : x[1] \in DOMAIN template_to_task_map
                          /\ x[2] \in DOMAIN template_to_task_map}}

\* A lookup that finds no period.
existing_none(month) == {}

\* The period rows create_period's first query matches: those of the
\* requested (month, year), which the model's month stands for.
existing(month) == {p \in DOMAIN periods : periods[p].month = month}

\* POST /api/periods/?roll_forward_tasks=...
create_period(month, close_type, roll_forward_tasks) ==
    LET op == "create_period"
        id == nextId.period
        selected == IF roll_forward_tasks THEN roll_forward_templates(close_type) ELSE {}
        n == Cardinality(selected)
        first == nextId.task
    IN  \/ /\ existing(month) # {}
           /\ last' = Response(op, 0, <<>>, 400, 0)
           /\ UNCHANGED db
        \/ /\ existing(month) = {}
           /\ periods' = periods @@ (id :> [month |-> month, close_type |-> close_type])
           /\ \E order \in RowOrders(selected) :
                LET template_to_task_map ==
                        [t \in selected |-> first - 1 + CHOOSE i \in 1..n : order[i] = t]
                IN  /\ tasks' = tasks @@ [k \in first..(first + n - 1) |->
                                    [period_id |-> id, template_id |-> order[k - first + 1]]]
                    /\ deps' = deps \cup roll_forward_edges(template_to_task_map)
                    /\ last' = Response(op, id, order, 201,
                                        IF roll_forward_tasks THEN 1 ELSE 0)
           /\ nextId' = [nextId EXCEPT !.period = id + 1, !.task = first + n]
           /\ UNCHANGED <<templates, tdeps, audit>>

CreatePeriod ==
    \E month \in 1..MaxMonth, close_type \in CloseType, roll_forward_tasks \in BOOLEAN :
        create_period(month, close_type, roll_forward_tasks)

\* A close that keeps what the session had flushed.
session_close_flushed(committed, flushed) == flushed

\* get_db's finally clause: closing the session rolls the open transaction
\* back, so a table is left as it was last committed, whatever was flushed.
session_close(committed, flushed) == committed

\* POST /api/periods/?roll_forward_tasks=true raising partway: the period row
\* is committed before the roll-forward starts; the exception comes after
\* `flushed` tasks of the first pass were added and flushed (their ids are
\* drawn from the sequence and not given back), and with all of them flushed
\* possibly in the second pass, after edges were appended.
create_period_aborted(month, close_type, flushed, second_pass) ==
    LET op == "create_period"
        id == nextId.period
        selected == roll_forward_templates(close_type)
        n == Cardinality(selected)
        first == nextId.task
    IN  /\ existing(month) = {}
        /\ flushed \in 0..n
        /\ second_pass => flushed = n
        /\ periods' = periods @@ (id :> [month |-> month, close_type |-> close_type])
        /\ \E order \in RowOrders(selected) :
             LET made == {order[i] : i \in 1..flushed}
                 template_to_task_map ==
                     [t \in made |-> first - 1 + CHOOSE i \in 1..flushed : order[i] = t]
                 added == tasks @@ [k \in first..(first + flushed - 1) |->
                                      [period_id |-> id, template_id |-> order[k - first + 1]]]
                 linked == IF second_pass
                           THEN deps \cup roll_forward_edges(template_to_task_map)
                           ELSE deps
             IN  /\ tasks' = session_close(tasks, added)
                 /\ deps' = session_close(deps, linked)
                 /\ last' = Response(op, id, SubSeq(order, 1, flushed), 500, 1)
        /\ nextId' = [nextId EXCEPT !.period = id + 1, !.task = first + flushed]
        /\ UNCHANGED <<templates, tdeps, audit>>

CreatePeriodAborted ==
    \E month \in 1..MaxMonth, close_type \in CloseType,
       flushed \in 0..MaxTaskId, second_pass \in BOOLEAN :
        create_period_aborted(month, close_type, flushed, second_pass)

\* Deleting the task rows D: their dependency rows on either side go, and so
\* do their audit rows (Task.audit_logs cascade, audit_logs.task_id ON DELETE
\* CASCADE), the "deleted" row logged just before included.
delete_tasks(D) ==
    /\ tasks' = [t \in DOMAIN tasks \ D |-> tasks[t]]
    /\ deps' = delete_edges(deps, D)
    /\ audit' = SelectSeq(audit, LAMBDA r : r.task_id \notin D)

\* DELETE /api/periods/{id}: Period.tasks cascades the delete to its tasks.
delete_period(period_id) ==
    LET op == "delete_period"
    IN  \/ /\ period_id \notin DOMAIN periods
           /\ last' = Response(op, period_id, <<>>, 404, 0)
           /\ UNCHANGED db
        \/ /\ period_id \in DOMAIN periods
           /\ periods' = [p \in DOMAIN periods \ {period_id} |-> periods[p]]
           /\ delete_tasks({t \in DOMAIN tasks : tasks[t].period_id = period_id})
           /\ last' = Response(op, period_id, <<>>, 204, 0)
           /\ UNCHANGED <<templates, tdeps, nextId>>

DeletePeriod ==
    \E period_id \in 1..nextId.period : delete_period(period_id)

\* -------------------------------------------------------------------- tasks
\* POST /api/tasks/: the task is flushed before its dependencies are looked
\* up, so its own id is found too; no period or cycle test on the rows found.
create_task(period_id, template_id, dependency_ids) ==
    LET op == "create_task"
        id == nextId.task
        nodes == DOMAIN tasks \cup {id}
        found == Range(dependency_ids) \cap nodes
    IN  \/ /\ period_id \notin DOMAIN periods
           /\ last' = Response(op, 0, dependency_ids, 404, 0)
           /\ UNCHANGED db
        \/ /\ period_id \in DOMAIN periods
           /\ nextId' = [nextId EXCEPT !.task = id + 1]
           /\ \/ /\ DuplicateInsert(dependency_ids, nodes, {})
                 /\ last' = Response(op, id, dependency_ids, 500, 0)
                 /\ UNCHANGED <<periods, tasks, deps, templates, tdeps, audit>>
              \/ /\ ~DuplicateInsert(dependency_ids, nodes, {})
                 /\ tasks' = tasks @@ (id :> [period_id |-> period_id, template_id |-> template_id])
                 /\ deps' = deps \cup {<<id, d>> : d \in found}
                 /\ audit' = log_task_change(id, "created", <<>>, <<>>)
                 /\ last' = Response(op, id, dependency_ids, 201, 0)
                 /\ UNCHANGED <<periods, templates, tdeps>>

CreateTask ==
    \E period_id \in 1..nextId.period, template_id \in {0} \cup DOMAIN templates,
       dependency_ids \in IdLists(nextId.task) :
        create_task(period_id, template_id, dependency_ids)

\* The dependency rows found for a request list, in list order.
found_list(ids, nodes) == SelectSeq(ids, LAMBDA d : d \in nodes)

\* PUT /api/tasks/{id}: given says whether the payload carries dependency_ids.
update_task(task_id, given, dependency_ids) ==
    LET op == "update_task"
        old == dependencies(deps, task_id)
        existing_dependency_ids == sorted(old)
        new_dependency_ids == sorted_list(found_list(dependency_ids, DOMAIN tasks))
    IN  \/ /\ task_id \notin DOMAIN tasks
           /\ last' = Response(op, task_id, dependency_ids, 404, 0)
           /\ UNCHANGED db
        \/ /\ task_id \in DOMAIN tasks
           /\ ~given
           /\ last' = Response(op, task_id, dependency_ids, 200, 0)
           /\ UNCHANGED db
        \/ /\ task_id \in DOMAIN tasks
           /\ given
           /\ \/ /\ DuplicateInsert(dependency_ids, DOMAIN tasks, old)
                 /\ last' = Response(op, task_id, dependency_ids, 500, 0)
                 /\ UNCHANGED db
              \/ /\ ~DuplicateInsert(dependency_ids, DOMAIN tasks, old)
                 /\ deps' = replace_dependencies(deps, task_id, Range(new_dependency_ids))
                 /\ audit' = IF existing_dependency_ids # new_dependency_ids
                             THEN log_task_change(task_id, "dependencies_updated",
                                                  existing_dependency_ids, new_dependency_ids)
                             ELSE audit
                 /\ last' = Response(op, task_id, dependency_ids, 200, 1)
                 /\ UNCHANGED <<periods, tasks, templates, tdeps, nextId>>

UpdateTask ==
    \E task_id \in 1..nextId.task, given \in BOOLEAN,
       dependency_ids \in IdLists(nextId.task) :
        /\ ~given => dependency_ids = <<>>
        /\ update_task(task_id, given, dependency_ids)

\* DELETE /api/tasks/{id}
delete_task(task_id) ==
    LET op == "delete_task"
    IN  \/ /\ task_id \notin DOMAIN tasks
           /\ last' = Response(op, task_id, <<>>, 404, 0)
           /\ UNCHANGED db
        \/ /\ task_id \in DOMAIN tasks
           /\ delete_tasks({task_id})
           /\ last' = Response(op, task_id, <<>>, 204, 0)
           /\ UNCHANGED <<periods, templates, tdeps, nextId>>

DeleteTask ==
    \E task_id \in 1..nextId.task : delete_task(task_id)

\* POST /api/tasks/bulk-delete
bulk_delete_tasks(task_ids) ==
    LET op == "bulk_delete_tasks"
        found == Range(task_ids) \cap DOMAIN tasks
    IN  \/ /\ task_ids = <<>>
           /\ last' = Response(op, 0, task_ids, 400, 0)
           /\ UNCHANGED db
        \/ /\ task_ids # <<>>
           /\ delete_tasks(found)
           /\ last' = Response(op, 0, task_ids, 200, Cardinality(found))
           /\ UNCHANGED <<periods, templates, tdeps, nextId>>

BulkDeleteTasks ==
    \E task_ids \in IdLists(nextId.task) : bulk_delete_tasks(task_ids)

\* ---------------------------------------------------------------- due dates
\* A nullable column holds None or Some(value).
None == <<>>
Some(x) == <<x>>

\* A leap rule that knows no century exception.
isleap_julian(year) == year % 4 = 0

\* calendar.isleap
isleap(year) == year % 4 = 0 /\ (year % 100 # 0 \/ year % 400 = 0)

\* calendar.mdays
mdays == <<31, 28, 31, 30, 31, 30, 31, 31, 30, 31, 30, 31>>

\* calendar.monthrange(year, month)[1]
monthrange(year, month) == mdays[month] + (IF month = 2 /\ isleap(year) THEN 1 ELSE 0)

date(year, month, day) == [year |-> year, month |-> month, day |-> day]

RECURSIVE days_before_month(_, _)
\* Days of the year before the first day of the month.
days_before_month(year, month) ==
    IF month = 1 THEN 0
    ELSE days_before_month(year, month - 1) + monthrange(year, month - 1)

\* Days before January 1st of the year, counted from 0001-01-01.
days_before_year(year) ==
    LET y == year - 1 IN y * 365 + (y \div 4) - (y \div 100) + (y \div 400)

\* date.toordinal
toordinal(d) == days_before_year(d.year) + days_before_month(d.year, d.month) + d.day

\* date.fromordinal, within a year of the dates handled here: the date whose
\* ordinal is n.
fromordinal(n, near) ==
    CHOOSE d \in {date(y, m, dd) : y \in (near - 1)..(near + 1), m \in 1..12, dd \in 1..31} :
        d.day <= monthrange(d.year, d.month) /\ toordinal(d) = n

\* datetime.combine(base_date, datetime.min.time()).replace(tzinfo=utc)
\*     + timedelta(days=offset_days)
_compute_due_datetime(period, offset_days) ==
    LET base_date == IF period.target_close_date # None
                     THEN period.target_close_date[1]
                     ELSE date(period.year, period.month,
                               monthrange(period.year, period.month))
    IN  [date |-> fromordinal(toordinal(base_date) + offset_days, base_date.year),
         hour |-> 0, minute |-> 0, second |-> 0, tzinfo |-> "UTC"]

\* First pass of the roll-forward for one template: the due date given to its
\* task, `template.days_offset or 0` days from the period's anchor.
roll_forward_due_date(period_id, template_id) ==
    LET days_offset == templates[template_id].days_offset
    IN  /\ last' = Response("roll_forward_due_date", period_id, <<template_id>>, 0,
                            _compute_due_datetime(periods[period_id],
                                IF days_offset = None THEN 0 ELSE days_offset[1]))
        /\ UNCHANGED db

RollForwardDueDate ==
    \E period_id \in DOMAIN periods, template_id \in DOMAIN templates :
        roll_forward_due_date(period_id, template_id)

\* --------------------------------------------------- PUT /api/periods/{id}
\* An update that computes the due dates of the period's tasks again.
update_period_recomputed(period_id, status, given, target_close_date) ==
    /\ period_id \in DOMAIN periods
    /\ periods' = [periods EXCEPT
                      ![period_id].target_close_date = IF given THEN target_close_date ELSE @]
    /\ tasks' = [t \in DOMAIN tasks |->
                    IF tasks[t].period_id # period_id THEN tasks[t]
                    ELSE [tasks[t] EXCEPT !.due_date =
                             Some(_compute_due_datetime(periods'[period_id], 0))]]
    /\ last' = Response("update_period", period_id, <<>>, 200, 0)
    /\ UNCHANGED <<deps, templates, tdeps, audit, nextId>>

\* setattr for every field the body sets (status and target_close_date here;
\* a target_close_date given as null clears it), on the period row alone.
update_period(period_id, status, given, target_close_date) ==
    LET op == "update_period"
    IN  \/ /\ period_id \notin DOMAIN periods
           /\ last' = Response(op, period_id, <<>>, 404, 0)
           /\ UNCHANGED db
        \/ /\ period_id \in DOMAIN periods
           /\ periods' = [periods EXCEPT
                 ![period_id].status = IF status = "unset" THEN @ ELSE status,
                 ![period_id].target_close_date = IF given THEN target_close_date ELSE @]
           /\ last' = Response(op, period_id, <<>>, 200, 0)
           /\ UNCHANGED <<tasks, deps, templates, tdeps, audit, nextId>>

\* PUT /api/task-templates/{id} with a body that sets days_offset only.
update_task_template_days_offset(template_id, days_offset) ==
    LET op == "update_task_template"
    IN  \/ /\ template_id \notin DOMAIN templates
           /\ last' = Response(op, template_id, <<>>, 404, 0)
           /\ UNCHANGED db
        \/ /\ template_id \in DOMAIN templates
           /\ templates' = [templates EXCEPT ![template_id].days_offset = Some(days_offset)]
           /\ last' = Response(op, template_id, <<>>, 200, 0)
           /\ UNCHANGED <<periods, tasks, deps, tdeps, audit, nextId>>

\* ------------------------------------------------ status changes and timestamps
\* datetime.utcnow() of a request: later than that of the request before.
utcnow == last.detail.now + 1

\* A status change that stamps the task on every entry into the status.
status_changed_stamped(task, value, now) ==
    [task EXCEPT !.status = value,
                 !.started_at = IF value = "in_progress" THEN Some(now) ELSE @,
                 !.completed_at = IF value = "complete" THEN Some(now) ELSE @]

\* The task after its status was set to another value: started_at /
\* completed_at are set when the new status is in_progress / complete and the
\* column is still empty.
status_changed(task, value, now) ==
    [task EXCEPT !.status = value,
                 !.started_at = IF value = "in_progress" /\ @ = None THEN Some(now) ELSE @,
                 !.completed_at = IF value = "complete" /\ @ = None THEN Some(now) ELSE @]

\* The audit rows of the tasks in rows whose status changes to value.
status_changes(rows, value) ==
    LET changed == SelectSeq(rows, LAMBDA t : tasks[t].status # value)
    IN  [i \in 1..Len(changed) |->
            [task_id |-> changed[i], action |-> "status_changed",
             old_value |-> tasks[changed[i]].status, new_value |-> value]]

\* PUT /api/tasks/{id} with a body that sets status only.  A null status is
\* set on the row and refused by the NOT NULL column at the commit.
update_task_status(task_id, status) ==
    LET op == "update_task"
        now == utcnow
    IN  \/ /\ task_id \notin DOMAIN tasks
           /\ last' = Response(op, task_id, <<>>, 404, [now |-> now, updated |-> 0])
           /\ UNCHANGED db
        \/ /\ task_id \in DOMAIN tasks
           /\ status = "null"
           /\ last' = Response(op, task_id, <<>>, 500, [now |-> now, updated |-> 0])
           /\ UNCHANGED db
        \/ /\ task_id \in DOMAIN tasks
           /\ status # "null"
           /\ tasks' = IF tasks[task_id].status = status THEN tasks
                       ELSE [tasks EXCEPT ![task_id] = status_changed(@, status, now)]
           /\ audit' = audit \o status_changes(<<task_id>>, status)
           /\ last' = Response(op, task_id, <<>>, 200,
                               [now |-> now, updated |-> Len(audit') - Len(audit)])
           /\ UNCHANGED <<periods, deps, templates, tdeps, nextId>>

\* POST /api/tasks/bulk-update with task_ids and a status ("unset": the body
\* has neither status nor assignee_id).
bulk_update_tasks(task_ids, status) ==
    LET op == "bulk_update_tasks"
        now == utcnow
        selected == Range(task_ids) \cap DOMAIN tasks
    IN  \/ /\ task_ids = <<>> \/ status = "unset"
           /\ last' = Response(op, 0, task_ids, 400, [now |-> now, updated |-> 0])
           /\ UNCHANGED db
        \/ /\ task_ids # <<>> /\ status # "unset"
           /\ \E rows \in RowOrders(selected) :
                 /\ tasks' = [t \in DOMAIN tasks |->
                                 IF t \in selected /\ tasks[t].status # status
                                 THEN status_changed(tasks[t], status, now) ELSE tasks[t]]
                 /\ audit' = audit \o status_changes(rows, status)
           /\ last' = Response(op, 0, task_ids, 200,
                               [now |-> now, updated |-> Len(audit') - Len(audit)])
           /\ UNCHANGED <<periods, deps, templates, tdeps, nextId>>

\* ---------------------------------------------------------------- dashboard
\* Instants are seconds, counted from the moment of the request.
Hour == 3600
Day == 24 * Hour

\* datetime.now(timezone.utc)
now_utc == 0

far_future_days == 3650
at_risk_days == 2
top == 5

far_future == now_utc + far_future_days * Day
at_risk_deadline == now_utc + at_risk_days * Day

\* The instant of a stored datetime in UTC, None for NULL; the due_date column
\* is timezone-aware, so it is the same instant.
ensure_aware(dt) == IF dt = None THEN None ELSE Some(dt[1])

\* ensure_aware(summary.due_date) or far_future
summary_sort_key(due_date) ==
    IF ensure_aware(due_date) = None THEN far_future ELSE ensure_aware(due_date)[1]

\* Python's order on tuples of numbers.
tuple_less(a, b) ==
    \E i \in 1..Len(a) : a[i] < b[i] /\ \A j \in 1..(i - 1) : a[j] = b[j]

\* One step of list.sort on [key, item] pairs: x goes after every pair already
\* placed whose key is not greater, so equal keys keep their order.
insert_keyed(x, s) ==
    LET n == Cardinality({i \in 1..Len(s) : ~tuple_less(x.key, s[i].key)})
    IN  SubSeq(s, 1, n) \o <<x>> \o SubSeq(s, n + 1, Len(s))

RECURSIVE sort_keyed(_)
\* list.sort(key=...): stable, ascending by key.
sort_keyed(s) ==
    IF s = <<>> THEN <<>>
    ELSE insert_keyed(s[Len(s)], sort_keyed(SubSeq(s, 1, Len(s) - 1)))

items(s) == [i \in 1..Len(s) |-> s[i].item]

\* ids.sort(key=summary_sort_key) for a list of task ids.
sort_by_due(ids) ==
    items(sort_keyed([i \in 1..Len(ids) |->
        [key |-> <<summary_sort_key(tasks[ids[i]].due_date)>>, item |-> ids[i]]]))

\* A slice that keeps the whole list.
uncapped(s) == s

\* s[:5]
capped(s) == SubSeq(s, 1, IF Len(s) < top THEN Len(s) ELSE top)

\* The tasks the dashboard query selects, as the rows come back (by id): those
\* of the period asked for, else those of the active periods, else all.
dashboard_tasks(period_id) ==
    LET active == {q \in DOMAIN periods : periods[q].status \in {"in_progress", "under_review"}}
    IN  sorted(IF period_id # 0 THEN {t \in DOMAIN tasks : tasks[t].period_id = period_id}
               ELSE IF active # {} THEN {t \in DOMAIN tasks : tasks[t].period_id \in active}
               ELSE DOMAIN tasks)

\* An at-risk test that leaves out the deadline itself.
at_risk_before(rows) ==
    SelectSeq(rows, LAMBDA t :
        /\ tasks[t].status # "complete"
        /\ ensure_aware(tasks[t].due_date) # None
        /\ ensure_aware(tasks[t].due_date)[1] < at_risk_deadline)

\* at_risk_tasks before sorting.
at_risk(rows) ==
    SelectSeq(rows, LAMBDA t :
        /\ tasks[t].status # "complete"
        /\ ensure_aware(tasks[t].due_date) # None
        /\ ensure_aware(tasks[t].due_date)[1] <= at_risk_deadline)

\* A grouping that keeps the complete dependents.
dependents_by_blocker_all(rows, blocker) ==
    SelectSeq(rows, LAMBDA d : <<d, blocker>> \in deps)

\* dependents_by_blocker[blocker]: the rows of the dependency query whose
\* dependent is not complete, both ends among the selected tasks.
dependents_by_blocker(rows, blocker) ==
    SelectSeq(rows, LAMBDA d : <<d, blocker>> \in deps /\ tasks[d].status # "complete")

\* The candidates list before it is sorted.
candidates(rows) ==
    LET blockers == SelectSeq(rows, LAMBDA t :
                        /\ dependents_by_blocker(rows, t) # <<>>
                        /\ tasks[t].status # "complete")
    IN  [i \in 1..Len(blockers) |->
            LET task == blockers[i]
                dependents == sort_by_due(dependents_by_blocker(rows, task))
                task_due == ensure_aware(tasks[task].due_date)
                overdue_flag == IF task_due # None /\ task_due[1] < now_utc THEN 0 ELSE 1
            IN  [key |-> <<overdue_flag, summary_sort_key(tasks[task].due_date),
                           -Len(dependents)>>,
                 item |-> [id |-> task, blocked_dependents |-> Len(dependents),
                           dependents |-> dependents]]]

\* GET /api/dashboard/stats: the four task lists of the response.
get_dashboard_stats(period_id) ==
    LET rows == dashboard_tasks(period_id)
        stats == [blocked_tasks |->
                      capped(sort_by_due(SelectSeq(rows, LAMBDA t : tasks[t].status = "blocked"))),
                  review_tasks |->
                      capped(sort_by_due(SelectSeq(rows, LAMBDA t : tasks[t].status = "review"))),
                  at_risk_tasks |-> capped(sort_by_due(at_risk(rows))),
                  critical_path_tasks |-> capped(items(sort_keyed(candidates(rows))))]
    IN  /\ last' = Response("get_dashboard_stats", period_id, <<>>, 200, stats)
        /\ UNCHANGED db

GetDashboardStats ==
    \E period_id \in 0..MaxPeriodId : get_dashboard_stats(period_id)

\* ----------------------------------------------------------------- workflow
RECURSIVE sorted_list_of_pairs(_, _)
\* The (node, dependency) pairs met by `for node in nodes: for dep in
\* node.dependencies`, nodes in list order.
sorted_list_of_pairs(nodes, E) ==
    IF nodes = <<>> THEN <<>>
    ELSE LET ds == sorted(dependencies(E, Head(nodes)))
         IN  [i \in 1..Len(ds) |-> <<Head(nodes), ds[i]>>]
                 \o sorted_list_of_pairs(Tail(nodes), E)

\* Edges drawn as the dependsOn rows point, from the dependent.
workflow_edges_stored(nodes, E) ==
    LET pairs == sorted_list_of_pairs(nodes, E)
    IN  [i \in 1..Len(pairs) |->
            [id |-> ToString(pairs[i][1]) \o "-" \o ToString(pairs[i][2]),
             source |-> pairs[i][1], target |-> pairs[i][2]]]

\* "Compute edges from dependencies": for each node returned, for each of its
\* dependencies, an edge from the dependency to the node.
workflow_edges(nodes, E) ==
    LET pairs == sorted_list_of_pairs(nodes, E)
    IN  [i \in 1..Len(pairs) |->
            [id |-> ToString(pairs[i][2]) \o "-" \o ToString(pairs[i][1]),
             source |-> pairs[i][2], target |-> pairs[i][1]]]

\* GET /api/tasks/period/{period_id}/workflow
get_period_workflow(period_id) ==
    LET op == "get_period_workflow"
        nodes == sorted({t \in DOMAIN tasks : tasks[t].period_id = period_id})
    IN  /\ \/ /\ period_id \notin DOMAIN periods
              /\ last' = Response(op, period_id, <<>>, 404, 0)
           \/ /\ period_id \in DOMAIN periods
              /\ last' = Response(op, period_id, <<>>, 200,
                                  [nodes |-> nodes, edges |-> workflow_edges(nodes, deps)])
        /\ UNCHANGED db

GetPeriodWorkflow ==
    \E period_id \in 1..nextId.period : get_period_workflow(period_id)

\* close_type.strip().lower() of the query strings tried.
normalized_close_type ==
    [x \in {"monthly", "quarterly", " Monthly", "weekly"} |->
        IF x = " Monthly" THEN "monthly" ELSE x]

\* GET /api/task-templates/workflow?close_type=...: the active templates, of
\* the close type when the parameter names one; "" is no parameter.
get_template_workflow(close_type) ==
    LET op == "get_template_workflow"
        filter == IF close_type # "" /\ normalized_close_type[close_type] \in CloseType
                  THEN {normalized_close_type[close_type]}
                  ELSE CloseType
        nodes == sorted({t \in DOMAIN templates :
                            templates[t].is_active /\ templates[t].close_type \in filter})
    IN  /\ last' = Response(op, 0, <<close_type>>, 200,
                            [nodes |-> nodes, edges |-> workflow_edges(nodes, tdeps)])
        /\ UNCHANGED db

GetTemplateWorkflow ==
    \E close_type \in {""} \cup DOMAIN normalized_close_type :
        get_template_workflow(close_type)

\* ------------------------------------------------------------ specifications
\* A step stays within the bounds: requests that may log are made while the
\* audit log holds fewer than maxAudit rows, and the id sequences hand out no
\* id past the given ones.
Within(maxPeriod, maxTask, maxTemplate) ==
    /\ nextId'.period <= maxPeriod + 1
    /\ nextId'.task <= maxTask + 1
    /\ nextId'.template <= maxTemplate + 1

Room(maxAudit) == Len(audit) < maxAudit

\* The empty database.
Init ==
    /\ periods = <<>>
    /\ tasks = <<>>
    /\ deps = {}
    /\ templates = <<>>
    /\ tdeps = {}
    /\ audit = <<>>
    /\ nextId = [period |-> 1, task |-> 1, template |-> 1]
    /\ last = NoRequest

Bounded == Within(MaxPeriodId, MaxTaskId, MaxTemplateId)

Next ==
    \/ CreateTaskTemplate /\ Bounded
    \/ UpdateTaskTemplate /\ Bounded
    \/ UpdateTemplateDependencies /\ Bounded
    \/ DeleteTaskTemplate /\ Bounded
    \/ CreatePeriod /\ Bounded
    \/ DeletePeriod /\ Bounded
    \/ Room(MaxAudit) /\ CreateTask /\ Bounded
    \/ Room(MaxAudit) /\ UpdateTask /\ Bounded
    \/ Room(MaxAudit) /\ UpdateTaskDependencies /\ Bounded
    \/ DeleteTask /\ Bounded
    \/ BulkDeleteTasks /\ Bounded

Spec == Init /\ [][Next]_vars

\* The dependency editor alone: MaxPeriodId periods, MaxTaskId tasks and any
\* acyclic dependency table over them; the only operation is
\* update_task_dependencies.
InitEdit ==
    /\ periods = [p \in 1..MaxPeriodId |-> [month |-> p, close_type |-> "monthly"]]
    /\ tasks = [t \in 1..MaxTaskId |->
                  [period_id |-> IF t = MaxTaskId THEN MaxPeriodId ELSE 1,
                   template_id |-> 0]]
    /\ deps \in {E \in SUBSET ((1..MaxTaskId) \X (1..MaxTaskId)) : Acyclic(E)}
    /\ templates = <<>>
    /\ tdeps = {}
    /\ audit = <<>>
    /\ nextId = [period |-> MaxPeriodId + 1, task |-> MaxTaskId + 1, template |-> 1]
    /\ last = NoRequest

NextEdit == Room(MaxAudit) /\ UpdateTaskDependencies

SpecEdit == InitEdit /\ [][NextEdit]_vars

\* The template administration alone, from the empty database.
NextTemplates ==
    \/ CreateTaskTemplate /\ Bounded
    \/ UpdateTaskTemplate /\ Bounded
    \/ UpdateTemplateDependencies /\ Bounded
    \/ DeleteTaskTemplate /\ Bounded

SpecTemplates == Init /\ [][NextTemplates]_vars

\* The task side alone: every operation that writes tasks or task_dependencies,
\* over two active monthly templates, the second depending on the first.
InitTasks ==
    /\ periods = <<>>
    /\ tasks = <<>>
    /\ deps = {}
    /\ templates = [t \in 1..2 |-> [close_type |-> "monthly", is_active |-> TRUE]]
    /\ tdeps = {<<2, 1>>}
    /\ audit = <<>>
    /\ nextId = [period |-> 1, task |-> 1, template |-> 3]
    /\ last = NoRequest

BoundedTasks == Within(MaxPeriodId, MaxTaskId, MaxTemplateId)

NextTasks ==
    \/ CreatePeriod /\ BoundedTasks
    \/ DeletePeriod /\ BoundedTasks
    \/ Room(TasksMaxAudit) /\ CreateTask /\ BoundedTasks
    \/ Room(TasksMaxAudit) /\ UpdateTask /\ BoundedTasks
    \/ Room(TasksMaxAudit) /\ UpdateTaskDependencies /\ BoundedTasks
    \/ DeleteTask /\ BoundedTasks
    \/ BulkDeleteTasks /\ BoundedTasks

SpecTasks == InitTasks /\ [][NextTasks]_vars

\* Period creation and deletion alone, over RollTemplates templates of any
\* close type, active or not, and up to RollMaxEdges template dependency rows.
InitRoll ==
    /\ periods = <<>>
    /\ tasks = <<>>
    /\ deps = {}
    /\ templates \in [1..RollTemplates -> [close_type : CloseType, is_active : BOOLEAN]]
    /\ tdeps \in {E \in SUBSET ((1..RollTemplates) \X (1..RollTemplates)) :
                    Cardinality(E) <= RollMaxEdges}
    /\ audit = <<>>
    /\ nextId = [period |-> 1, task |-> 1, template |-> RollTemplates + 1]
    /\ last = NoRequest

BoundedRoll == Within(MaxPeriodId, MaxTaskId, RollTemplates)

NextRoll ==
    \/ CreatePeriod /\ BoundedRoll
    \/ DeletePeriod /\ BoundedRoll

SpecRoll == InitRoll /\ [][NextRoll]_vars

\* Period creation with its failures, and period deletion, over the two
\* templates of InitTasks.
NextAbort ==
    \/ CreatePeriod /\ BoundedTasks
    \/ CreatePeriodAborted /\ BoundedTasks
    \/ DeletePeriod /\ BoundedTasks

SpecAbort == InitTasks /\ [][NextAbort]_vars

\* The due-date computation alone: one period of any month of DueYears, with
\* or without a target close date, and one template of any offset.
DueYears == (FirstYear..LastYear) \cup {CenturyYear, LeapCenturyYear}

DueOffsets ==
    {None} \cup {Some(n) : n \in (-MaxOffset..MaxOffset) \cup {-LongOffset, LongOffset}}

InitDue ==
    /\ \E year \in DueYears, month \in 1..12 :
          \E target \in {None, Some(date(year, month, 1)), Some(date(year, month, 28))} :
             periods = (1 :> [month |-> month, year |-> year, close_type |-> "monthly",
                              target_close_date |-> target])
    /\ tasks = <<>>
    /\ deps = {}
    /\ \E days_offset \in DueOffsets :
          templates = (1 :> [close_type |-> "monthly", is_active |-> TRUE,
                             days_offset |-> days_offset])
    /\ tdeps = {}
    /\ audit = <<>>
    /\ nextId = [period |-> 2, task |-> 1, template |-> 2]
    /\ last = NoRequest

NextDue == RollForwardDueDate

SpecDue == InitDue /\ [][NextDue]_vars

\* The dashboard alone: DashTasks tasks of any status and due date, the last
\* one in the second period, each depending on any of the tasks before it.
DueDates ==
    {None} \cup {Some(now_utc + n) :
        n \in {-Day, Hour, at_risk_days * Day, at_risk_days * Day + 1,
               (far_future_days + 1) * Day}}

TaskStatus == {"in_progress", "complete", "blocked"}

InitDash ==
    /\ \E status \in {"planned", "in_progress"} :
          periods = [q \in 1..MaxPeriodId |->
                        [month |-> q, close_type |-> "monthly",
                         status |-> IF q = 1 THEN status ELSE "planned"]]
    /\ \E row \in [1..DashTasks -> [status : TaskStatus, due_date : DueDates]] :
          tasks = [t \in 1..DashTasks |->
                      [period_id |-> IF t = DashTasks THEN MaxPeriodId ELSE 1,
                       template_id |-> 0,
                       status |-> row[t].status, due_date |-> row[t].due_date]]
    /\ deps \in SUBSET {e \in (1..DashTasks) \X (1..DashTasks) : e[1] > e[2]}
    /\ templates = <<>>
    /\ tdeps = {}
    /\ audit = <<>>
    /\ nextId = [period |-> MaxPeriodId + 1, task |-> DashTasks + 1, template |-> 1]
    /\ last = NoRequest

NextDash == GetDashboardStats

SpecDash == InitDash /\ [][NextDash]_vars

\* The workflow views alone: the tasks of InitEdit with any dependency rows
\* between two tasks, and two templates, active or not, the second of either
\* close type, with any template dependency rows.
InitWorkflow ==
    /\ periods = [p \in 1..MaxPeriodId |-> [month |-> p, close_type |-> "monthly"]]
    /\ tasks = [t \in 1..MaxTaskId |->
                  [period_id |-> IF t = MaxTaskId THEN MaxPeriodId ELSE 1,
                   template_id |-> 0]]
    /\ deps \in SUBSET {e \in (1..MaxTaskId) \X (1..MaxTaskId) : e[1] # e[2]}
    /\ \E close_type \in CloseType, active \in [1..MaxTemplateId -> BOOLEAN] :
          templates = [t \in 1..MaxTemplateId |->
                          [close_type |-> IF t = 1 THEN "monthly" ELSE close_type,
                           is_active |-> active[t]]]
    /\ tdeps \in SUBSET ((1..MaxTemplateId) \X (1..MaxTemplateId))
    /\ audit = <<>>
    /\ nextId = [period |-> MaxPeriodId + 1, task |-> MaxTaskId + 1,
                 template |-> MaxTemplateId + 1]
    /\ last = NoRequest

NextWorkflow ==
    \/ GetPeriodWorkflow
    \/ GetTemplateWorkflow

SpecWorkflow == InitWorkflow /\ [][NextWorkflow]_vars

\* The two dependency editors side by side: MaxTaskId tasks with any acyclic
\* dependency table and as many templates with the same table under the
\* renaming iso; every update_task_dependencies request is followed by the
\* renamed request to update_template_dependencies.
iso(n) == IF n \in 1..MaxTaskId THEN MaxTaskId + 1 - n ELSE n

InitBoth ==
    /\ periods = [p \in 1..MaxPeriodId |-> [month |-> p, close_type |-> "monthly"]]
    /\ tasks = [t \in 1..MaxTaskId |->
                  [period_id |-> IF t = MaxTaskId THEN MaxPeriodId ELSE 1,
                   template_id |-> 0]]
    /\ deps \in {E \in SUBSET ((1..MaxTaskId) \X (1..MaxTaskId)) : Acyclic(E)}
    /\ templates = [t \in 1..MaxTaskId |-> [close_type |-> "monthly", is_active |-> TRUE]]
    /\ tdeps = {<<iso(e[1]), iso(e[2])>> : e \in deps}
    /\ audit = <<>>
    /\ nextId = [period |-> MaxPeriodId + 1, task |-> MaxTaskId + 1,
                 template |-> MaxTaskId + 1]
    /\ last = NoRequest

NextBoth ==
    \/ /\ last.op # "update_task_dependencies"
       /\ Room(TasksMaxAudit)
       /\ UpdateTaskDependencies
    \/ /\ last.op = "update_task_dependencies"
       /\ update_template_dependencies(iso(last.id),
                                       [i \in 1..Len(last.cands) |-> iso(last.cands[i])])

SpecBoth == InitBoth /\ [][NextBoth]_vars

\* Roll-forward over RollTemplates active monthly templates of any sort_order.
InitOrder ==
    /\ periods = <<>>
    /\ tasks = <<>>
    /\ deps = {}
    /\ \E sort_order \in [1..RollTemplates -> 0..RollMaxEdges] :
          templates = [t \in 1..RollTemplates |->
                          [close_type |-> "monthly", is_active |-> TRUE,
                           sort_order |-> sort_order[t]]]
    /\ tdeps = {}
    /\ audit = <<>>
    /\ nextId = [period |-> 1, task |-> 1, template |-> RollTemplates + 1]
    /\ last = NoRequest

SpecOrder == InitOrder /\ [][NextRoll]_vars

\* One cycle check on any dependency table over MaxTaskId tasks, cycles and
\* self-loops included, from any id the request can hold to any task.
InitSearch ==
    /\ periods = [p \in 1..1 |-> [month |-> 1, close_type |-> "monthly"]]
    /\ tasks = [t \in 1..MaxTaskId |-> [period_id |-> 1, template_id |-> 0]]
    /\ deps \in SUBSET ((1..MaxTaskId) \X (1..MaxTaskId))
    /\ templates = <<>>
    /\ tdeps = {}
    /\ audit = <<>>
    /\ nextId = [period |-> 2, task |-> MaxTaskId + 1, template |-> 1]
    /\ \E start \in 1..MaxTaskId + 1, target_id \in 1..MaxTaskId :
          last = Search(start, target_id)

NextSearch == SearchEnter \/ SearchNext \/ SearchExhausted \/ SearchReturn

SpecSearch == InitSearch /\ [][NextSearch]_vars /\ WF_vars(NextSearch)

\* The dependency editor over tasks that carry their status, due date and
\* canvas position: MaxTaskId tasks in MaxPeriodId periods, any acyclic table.
InitFrame ==
    /\ periods = [p \in 1..MaxPeriodId |-> [month |-> p, close_type |-> "monthly"]]
    /\ \E status \in {"not_started", "complete"}, due_date \in {None, Some(Day)} :
          tasks = [t \in 1..MaxTaskId |->
                      [period_id |-> IF t = MaxTaskId THEN MaxPeriodId ELSE 1,
                       template_id |-> 0,
                       status |-> IF t = 1 THEN status ELSE "in_progress",
                       due_date |-> IF t = 1 THEN Some(Day) ELSE due_date,
                       position_x |-> IF t = 1 THEN None ELSE Some(t),
                       position_y |-> IF t = 1 THEN None ELSE Some(0)]]
    /\ deps \in {E \in SUBSET ((1..MaxTaskId) \X (1..MaxTaskId)) : Acyclic(E)}
    /\ templates = <<>>
    /\ tdeps = {}
    /\ audit = <<>>
    /\ nextId = [period |-> MaxPeriodId + 1, task |-> MaxTaskId + 1, template |-> 1]
    /\ last = NoRequest

NextFrame == Room(TasksMaxAudit) /\ UpdateTaskDependencies

SpecFrame == InitFrame /\ [][NextFrame]_vars

\* A period after its roll-forward: one task per template, due days_offset
\* days from the period's anchor as it was then.
FixedTargets(year, month) ==
    {None, Some(date(year, month, 1)), Some(date(year, month, 28))}

FixedOffsets == {-MaxOffset, 0, MaxOffset}

InitFixed ==
    /\ \E month \in 1..MaxMonth, target \in FixedTargets(FirstYear, 1) :
          periods = (1 :> [month |-> month, year |-> FirstYear, close_type |-> "monthly",
                           status |-> "planned", target_close_date |-> target])
    /\ \E days_offset \in [1..MaxTemplateId -> FixedOffsets] :
          templates = [t \in 1..MaxTemplateId |->
                          [close_type |-> "monthly", is_active |-> TRUE,
                           days_offset |-> Some(days_offset[t])]]
    /\ tasks = [t \in 1..MaxTemplateId |->
                  [period_id |-> 1, template_id |-> t,
                   due_date |-> Some(_compute_due_datetime(periods[1],
                                        templates[t].days_offset[1]))]]
    /\ deps = {}
    /\ tdeps = {}
    /\ audit = <<>>
    /\ nextId = [period |-> 2, task |-> MaxTemplateId + 1, template |-> MaxTemplateId + 1]
    /\ last = NoRequest

UpdatePeriod ==
    \E period_id \in 1..nextId.period, status \in {"unset", "in_progress"},
       given \in BOOLEAN, target_close_date \in FixedTargets(FirstYear, 1) :
        update_period(period_id, status, given, target_close_date)

UpdateTaskTemplateDaysOffset ==
    \E template_id \in 1..nextId.template, days_offset \in FixedOffsets :
        update_task_template_days_offset(template_id, days_offset)

NextFixed == UpdatePeriod \/ UpdateTaskTemplateDaysOffset

SpecFixed == InitFixed /\ [][NextFixed]_vars

\* The template operations on a database where a period was rolled forward
\* from the first template: its task refers to it.
InitReferenced ==
    /\ periods = (1 :> [month |-> 1, close_type |-> "monthly"])
    /\ tasks = (1 :> [period_id |-> 1, template_id |-> 1])
    /\ deps = {}
    /\ \E is_active \in BOOLEAN :
          templates = (1 :> [close_type |-> "monthly", is_active |-> is_active])
    /\ tdeps = {}
    /\ audit = <<>>
    /\ nextId = [period |-> 2, task |-> 2, template |-> 2]
    /\ last = NoRequest

SpecReferenced == InitReferenced /\ [][NextTemplates]_vars

\* Two dependency edits of different tasks in flight at once, on any acyclic
\* table over MaxTaskId tasks.
InitInterleaved ==
    /\ periods = (1 :> [month |-> 1, close_type |-> "monthly"])
    /\ tasks = [t \in 1..MaxTaskId |-> [period_id |-> 1, template_id |-> 0]]
    /\ deps \in {E \in SUBSET ((1..MaxTaskId) \X (1..MaxTaskId)) : Acyclic(E)}
    /\ templates = <<>>
    /\ tdeps = {}
    /\ audit = <<>>
    /\ nextId = [period |-> 2, task |-> MaxTaskId + 1, template |-> 1]
    /\ last = [op |-> "interleaved", reqs |-> [r \in Requests |-> IdleRequest]]

NextInterleaved == TxBegin \/ TxCheck \/ TxCommit

SpecInterleaved == InitInterleaved /\ [][NextInterleaved]_vars

\* Status changes on MaxPeriodId tasks as they are after their creation:
\* not_started, never started, never completed.  MaxClock requests are made.
Statuses == {"not_started", "in_progress", "review", "complete", "blocked"}

InitStamps ==
    /\ periods = (1 :> [month |-> 1, close_type |-> "monthly"])
    /\ tasks = [t \in 1..MaxPeriodId |->
                  [period_id |-> 1, template_id |-> 0, status |-> "not_started",
                   started_at |-> None, completed_at |-> None]]
    /\ deps = {}
    /\ templates = <<>>
    /\ tdeps = {}
    /\ audit = <<>>
    /\ nextId = [period |-> 2, task |-> MaxPeriodId + 1, template |-> 1]
    /\ last = Response("none", 0, <<>>, 0, [now |-> 0, updated |-> 0])

UpdateTaskStatus ==
    \E task_id \in 1..nextId.task, status \in Statuses \cup {"null"} :
        update_task_status(task_id, status)

BulkUpdateTasks ==
    \E task_ids \in IdLists(nextId.task), status \in Statuses \cup {"unset"} :
        bulk_update_tasks(task_ids, status)

NextStamps ==
    \/ utcnow <= MaxClock /\ UpdateTaskStatus
    \/ utcnow <= MaxClock /\ BulkUpdateTasks

SpecStamps == InitStamps /\ [][NextStamps]_vars

\* ------------------------------------------------ dependency editor: claims
IsEdit(r) == r.op = "update_task_dependencies"

\* C1: starting from an acyclic task graph, after any sequence of
\* update_task_dependencies calls the task dependency graph has no directed
\* cycle of any length.
C1_Acyclic == Acyclic(deps)

\* An accepted edit has closed a path of two edges through three tasks.
C1_Witness ==
    /\ IsEdit(last) /\ last.status = 200 /\ audit # <<>>
    /\ \E a, b, c \in DOMAIN tasks :
          /\ a # b /\ b # c /\ a # c
          /\ last.id = a
          /\ {<<a, b>>, <<b, c>>} \subseteq deps

\* Ids of a request's list that are the edited task itself or have a path of
\* dependsOn edges to it.
Offending(E, id, cands) ==
    {i \in 1..Len(cands) : cands[i] = id \/ Reaches(E, cands[i], id)}

\* The step is an edit of an existing task B whose list holds a task that
\* depends on B.
EditOfPrerequisite ==
    /\ IsEdit(last') /\ last'.id \in DOMAIN tasks
    /\ \E i \in 1..Len(last'.cands) : <<last'.cands[i], last'.id>> \in deps

\* C2 as stated: if A depends on B, update_task_dependencies(B, X) with A in
\* X fails with a 400 whose message names A, and leaves every table as it was.
C2_NamesA ==
    [][EditOfPrerequisite =>
          /\ last'.status = 400
          /\ \A i \in 1..Len(last'.cands) :
                <<last'.cands[i], last'.id>> \in deps => last'.detail = last'.cands[i]
          /\ UNCHANGED db]_vars

\* C2 amended: if A depends on B, update_task_dependencies(B, X) with A in X
\* fails with a 400 whose message names the first id of X that is B or has a
\* dependency path to B (A when no earlier id of X is such), and B's
\* dependency set, every other edge and the audit log are as before the call.
C2_NamesFirstOffender ==
    [][EditOfPrerequisite =>
          /\ last'.status = 400
          /\ last'.detail = last'.cands[Min(Offending(deps, last'.id, last'.cands))]
          /\ UNCHANGED db]_vars

\* A rejected edit of B whose list holds two tasks that depend on B, the
\* second of them named A; the dependency table is not empty.
C2_Witness ==
    /\ IsEdit(last) /\ last.status = 400 /\ last.id \in DOMAIN tasks
    /\ Len(last.cands) = 2
    /\ last.cands[1] # last.cands[2]
    /\ <<last.cands[1], last.id>> \in deps
    /\ <<last.cands[2], last.id>> \in deps
    /\ last.detail = last.cands[1]

C4_SecondCallSilent ==
    [][(IsEdit(last) /\ last.status = 200 /\ last' = last) =>
          (deps' = deps /\ audit' = audit)]_vars

RolledForward ==
    /\ last'.op = "create_period" /\ last'.status = 201 /\ last'.detail = 1

\* C6: create_period with roll_forward_tasks=true creates one task per active
\* template of the period's close type, and one task edge
\* task(Ta) -> task(Tb) for every template edge Ta -> Tb whose two templates
\* were instantiated; the new period's tasks touch no other edge and no
\* earlier edge changes.
C6_RollForwardFidelity ==
    [][RolledForward =>
          LET period == last'.id
              new == DOMAIN tasks' \ DOMAIN tasks
              active == {t \in DOMAIN templates :
                            /\ templates[t].is_active
                            /\ templates[t].close_type = periods'[period].close_type}
              task(t) == CHOOSE k \in new : tasks'[k].template_id = t
          IN  /\ DOMAIN tasks \subseteq DOMAIN tasks'
              /\ \A k \in new : tasks'[k].period_id = period /\ tasks'[k].template_id \in active
              /\ \A k \in DOMAIN tasks' : tasks'[k].period_id = period => k \in new
              /\ \A t \in active : Cardinality({k \in new : tasks'[k].template_id = t}) = 1
              /\ {e \in deps' : e[1] \in new \/ e[2] \in new}
                    = {<<task(e[1]), task(e[2])>> :
                          e \in {x \in tdeps : x[1] \in active /\ x[2] \in active}}
              /\ {e \in deps' : e[1] \notin new /\ e[2] \notin new} = deps]_vars

\* Templates T1, T2, T3 with T2 -> T1 and T3 -> T1 were rolled forward into
\* three tasks and the two edges of the same shape.
C6_Witness ==
    /\ last.op = "create_period" /\ last.status = 201 /\ last.detail = 1
    /\ tdeps = {<<2, 1>>, <<3, 1>>}
    /\ Cardinality({k \in DOMAIN tasks : tasks[k].period_id = last.id}) = 3
    /\ Cardinality(deps) = 2
    /\ \E k \in DOMAIN tasks :
          /\ tasks[k].template_id = 1
          /\ \A e \in deps : e[2] = k /\ tasks[e[1]].template_id \in {2, 3}

\* ----------------------------------------------------------- graphs: claims
\* C7: the template dependency graph has no cycle and no self-loop in any
\* state reachable by create_task_template, update_task_template,
\* update_template_dependencies and delete_task_template.
C7_TemplatesAcyclic == Acyclic(tdeps)

\* The dependency rows whose two tasks are in period p.
period_edges(p) ==
    {e \in deps : /\ e[1] \in DOMAIN tasks /\ e[2] \in DOMAIN tasks
                  /\ tasks[e[1]].period_id = p /\ tasks[e[2]].period_id = p}

\* C8: the task dependency graph of every period is a DAG in every state
\* reachable by the operations that write task edges.
C8_PeriodGraphsAcyclic == \A p \in DOMAIN periods : Acyclic(period_edges(p))

\* C9: in every reachable state the two tasks of every dependency edge are in
\* the same period.
C9_ScopeClosure ==
    \A e \in deps :
        (e[1] \in DOMAIN tasks /\ e[2] \in DOMAIN tasks) =>
            tasks[e[1]].period_id = tasks[e[2]].period_id

\* C10: in every reachable state both tasks of every dependency edge exist;
\* a deleted task leaves no edge behind, as dependent or as prerequisite.
C10_ReferentialIntegrity ==
    \A e \in deps : e[1] \in DOMAIN tasks /\ e[2] \in DOMAIN tasks

\* A task was deleted that a surviving task depended on: the survivor's last
\* logged edit kept the deleted task among its dependencies.
C10_Witness ==
    /\ last.op \in {"delete_task", "bulk_delete_tasks", "delete_period"}
    /\ last.status \in {200, 204}
    /\ \E i \in 1..Len(audit), d \in 1..MaxTaskId :
          /\ audit[i].action = "dependencies_updated"
          /\ audit[i].task_id \in DOMAIN tasks
          /\ d \notin DOMAIN tasks
          /\ d \in Range(audit[i].old_value) /\ d \in Range(audit[i].new_value)

\* ------------------------------------------------------- transactions: claims
\* C11: a create_period with roll_forward_tasks=true that is aborted partway
\* leaves no task and no dependency edge of that roll-forward persisted.
C11_AbortLeavesNothing ==
    [][(last'.op = "create_period" /\ last'.status = 500) =>
          /\ tasks' = tasks
          /\ deps' = deps
          /\ \A k \in DOMAIN tasks' : tasks'[k].period_id # last'.id]_vars

\* A roll-forward was aborted after both of its tasks were flushed; its
\* period is stored and has no task.
C11_Witness ==
    /\ last.op = "create_period" /\ last.status = 500
    /\ Len(last.cands) = 2
    /\ last.id \in DOMAIN periods
    /\ nextId.task > 2
    /\ \A k \in DOMAIN tasks : tasks[k].period_id # last.id

\* C12: create_period for a (month, year) that has a period answers 400 and
\* writes nothing: a create_period that is not answered 400 stored a period
\* whose (month, year) no period had, a 400 leaves every table as it was, and
\* so no two periods share a (month, year) and no period holds two tasks
\* rolled forward from the same template.
C12_OnePeriodPerMonth ==
    /\ [](\A p, q \in DOMAIN periods : periods[p].month = periods[q].month => p = q)
    /\ [](\A j, k \in DOMAIN tasks :
            (tasks[j].period_id = tasks[k].period_id
                /\ tasks[j].template_id = tasks[k].template_id) => j = k)
    /\ [][last'.op = "create_period" =>
            IF last'.status = 400
            THEN UNCHANGED db
            ELSE \A p \in DOMAIN periods :
                    periods[p].month # periods'[last'.id].month]_vars

\* A create_period was answered 400 while a period rolled forward into two
\* tasks and a period of the other month both exist.
C12_Witness ==
    /\ last.op = "create_period" /\ last.status = 400
    /\ Cardinality(DOMAIN periods) = 2
    /\ \E p \in DOMAIN periods :
          Cardinality({k \in DOMAIN tasks : tasks[k].period_id = p}) = 2

\* ----------------------------------------------------------- due dates: claims
\* Days of a month by the calendar rule: thirty days have September, April,
\* June and November; February has 29 in a year divisible by 4 that is no
\* century year or is divisible by 400.
DaysIn(year, month) ==
    IF month \in {4, 6, 9, 11} THEN 30
    ELSE IF month # 2 THEN 31
    ELSE IF year % 400 = 0 THEN 29
    ELSE IF year % 100 = 0 THEN 28
    ELSE IF year % 4 = 0 THEN 29 ELSE 28

Tomorrow(d) ==
    IF d.day < DaysIn(d.year, d.month) THEN date(d.year, d.month, d.day + 1)
    ELSE IF d.month < 12 THEN date(d.year, d.month + 1, 1)
    ELSE date(d.year + 1, 1, 1)

Yesterday(d) ==
    IF d.day > 1 THEN date(d.year, d.month, d.day - 1)
    ELSE IF d.month > 1 THEN date(d.year, d.month - 1, DaysIn(d.year, d.month - 1))
    ELSE date(d.year - 1, 12, 31)

RECURSIVE PlusDays(_, _)
PlusDays(d, n) ==
    IF n = 0 THEN d
    ELSE IF n > 0 THEN PlusDays(Tomorrow(d), n - 1)
    ELSE PlusDays(Yesterday(d), n + 1)

\* C13: the due date of a rolled-forward task is the anchor plus days_offset
\* days at UTC midnight, the anchor being the period's target_close_date if
\* set and else the last calendar day of (month, year); for February 2024
\* without target date that is 2024-02-29 for offset 0 and 2024-02-26 for -3.
C13_DueDate ==
    last.op = "roll_forward_due_date" =>
        LET period == periods[last.id]
            days_offset == templates[last.cands[1]].days_offset
            offset == IF days_offset = None THEN 0 ELSE days_offset[1]
            anchor == IF period.target_close_date # None
                      THEN period.target_close_date[1]
                      ELSE date(period.year, period.month, DaysIn(period.year, period.month))
            due == last.detail
        IN  /\ due = [date |-> PlusDays(anchor, offset),
                      hour |-> 0, minute |-> 0, second |-> 0, tzinfo |-> "UTC"]
            /\ (period.year = 2024 /\ period.month = 2 /\ period.target_close_date = None) =>
                  /\ offset = 0 => due.date = date(2024, 2, 29)
                  /\ offset = -3 => due.date = date(2024, 2, 26)

\* The due date for February 2024, no target date, offset -3 was computed.
C13_Witness ==
    /\ last.op = "roll_forward_due_date"
    /\ periods[1].year = 2024 /\ periods[1].month = 2
    /\ periods[1].target_close_date = None
    /\ templates[1].days_offset = Some(-3)
    /\ last.detail.date = date(2024, 2, 26)

\* ----------------------------------------------------------- dashboard: claims
IsStats(r) == r.op = "get_dashboard_stats"

\* The tasks a dashboard response is about.
Scope == Range(dashboard_tasks(last.id))

\* A due date as a number on which "no due date" is later than every date.
Later == (far_future_days + 2) * Day

DueOrLast(t) == IF tasks[t].due_date = None THEN now_utc + Later ELSE tasks[t].due_date[1]

NoRepeat(s) == \A i, j \in 1..Len(s) : s[i] = s[j] => i = j

\* The incomplete direct dependents of b among the tasks in scope.
IncompleteDependents(b) ==
    {d \in Scope : <<d, b>> \in deps /\ tasks[d].status # "complete"}

Overdue(t) == tasks[t].due_date # None /\ tasks[t].due_date[1] < now_utc

\* C14: critical_path_tasks is ordered by (overdueFlag, dueDate,
\* -dependentCount): an overdue blocker before every blocker that is not, then
\* the earlier due date with no due date last, then the larger count.
C14_CriticalPathOrder ==
    IsStats(last) =>
        LET out == last.detail.critical_path_tasks
            key(i) == <<IF Overdue(out[i].id) THEN 0 ELSE 1, DueOrLast(out[i].id),
                        -Cardinality(IncompleteDependents(out[i].id))>>
        IN  /\ Len(out) <= top
            /\ \A i, j \in 1..Len(out) : i < j => ~tuple_less(key(j), key(i))

\* C15: the critical-path entries are the tasks that are not complete and have
\* an incomplete direct dependent (all of them when there are at most five);
\* blocked_dependents counts those dependents, the dependents list holds
\* exactly them, and its dated entries are in ascending order of due date.
C15_Candidates ==
    IsStats(last) =>
        LET out == last.detail.critical_path_tasks
            ids == [i \in 1..Len(out) |-> out[i].id]
            blockers == {b \in Scope : tasks[b].status # "complete"
                                        /\ IncompleteDependents(b) # {}}
        IN  /\ NoRepeat(ids)
            /\ Range(ids) \subseteq blockers
            /\ Cardinality(blockers) <= top => Range(ids) = blockers
            /\ \A i \in 1..Len(out) :
                  LET ds == out[i].dependents
                  IN  /\ out[i].blocked_dependents = Cardinality(IncompleteDependents(out[i].id))
                      /\ Len(ds) = out[i].blocked_dependents
                      /\ Range(ds) = IncompleteDependents(out[i].id)
                      /\ \A j, k \in 1..Len(ds) :
                            (j < k /\ tasks[ds[j]].due_date # None
                                   /\ tasks[ds[k]].due_date # None) =>
                                tasks[ds[j]].due_date[1] <= tasks[ds[k]].due_date[1]

\* Overdue task 1 blocks task 3, due in an hour, and task 2, due in two days;
\* it is the first entry, with 2 blocked dependents listed 3 before 2.
C15_Witness ==
    /\ IsStats(last)
    /\ Len(last.detail.critical_path_tasks) >= 1
    /\ last.detail.critical_path_tasks[1] =
          [id |-> 1, blocked_dependents |-> 2, dependents |-> <<3, 2>>]
    /\ tasks[1].due_date = Some(now_utc - Day)
    /\ tasks[3].due_date = Some(now_utc + Hour)
    /\ tasks[2].due_date = Some(now_utc + at_risk_days * Day)

\* C16: the at-risk tasks are the tasks in scope that are not complete and
\* have a due date no later than two days from now, that instant included
\* (the response lists all of them when there are at most five).
C16_AtRisk ==
    IsStats(last) =>
        LET out == last.detail.at_risk_tasks
            risky == {t \in Scope :
                        /\ tasks[t].status # "complete"
                        /\ tasks[t].due_date # None
                        /\ tasks[t].due_date[1] <= now_utc + 2 * Day}
        IN  /\ NoRepeat(out)
            /\ Range(out) \subseteq risky
            /\ Cardinality(risky) <= top => Range(out) = risky

\* An in_progress task due in exactly two days is listed while an in_progress
\* task due a second later and a complete task due in an hour are not.
C16_Witness ==
    /\ IsStats(last)
    /\ \E a, b, c \in Scope :
          /\ tasks[a].status = "in_progress" /\ tasks[a].due_date = Some(now_utc + 2 * Day)
          /\ tasks[b].status = "in_progress" /\ tasks[b].due_date = Some(now_utc + 2 * Day + 1)
          /\ tasks[c].status = "complete" /\ tasks[c].due_date = Some(now_utc + Hour)
          /\ last.detail.at_risk_tasks = <<a>>

\* Ascending by due date, a task without due date after every dated one.
SortedDueLast(s) == \A i, j \in 1..Len(s) : i < j => DueOrLast(s[i]) <= DueOrLast(s[j])

\* s holds the earliest (at most five) tasks of the set F.
EarliestOf(s, F) ==
    /\ NoRepeat(s)
    /\ Range(s) \subseteq F
    /\ Len(s) = IF Cardinality(F) < top THEN Cardinality(F) ELSE top
    /\ \A t \in F \ Range(s) : \A i \in 1..Len(s) : DueOrLast(s[i]) <= DueOrLast(t)

\* C17: blocked_tasks, review_tasks and at_risk_tasks are each in ascending
\* order of due date with the tasks without due date last, and hold the (at
\* most) five earliest tasks of their filtered set.
C17_SortedAndCapped ==
    IsStats(last) =>
        LET stats == last.detail
            blocked == {t \in Scope : tasks[t].status = "blocked"}
            review == {t \in Scope : tasks[t].status = "review"}
            risky == {t \in Scope :
                        /\ tasks[t].status # "complete"
                        /\ tasks[t].due_date # None
                        /\ tasks[t].due_date[1] <= now_utc + 2 * Day}
        IN  /\ SortedDueLast(stats.blocked_tasks) /\ EarliestOf(stats.blocked_tasks, blocked)
            /\ SortedDueLast(stats.review_tasks) /\ EarliestOf(stats.review_tasks, review)
            /\ SortedDueLast(stats.at_risk_tasks) /\ EarliestOf(stats.at_risk_tasks, risky)

\* ------------------------------------------------------------ workflow: claims
\* The dependency table a workflow response reads.
WorkflowTable(r) == IF r.op = "get_period_workflow" THEN deps ELSE tdeps

\* C18: get_period_workflow and get_template_workflow return one edge for
\* every stored pair (n depends on d) whose dependent n is a node returned, no
\* edge twice and no other edge, each with id "<d>-<n>", source d and target
\* n; the call changes no table.
C18_WorkflowEdges ==
    [][(last'.op \in {"get_period_workflow", "get_template_workflow"}
            /\ last'.status = 200) =>
          LET nodes == Range(last'.detail.nodes)
              edges == last'.detail.edges
          IN  /\ UNCHANGED db
              /\ \A i, j \in 1..Len(edges) : edges[i] = edges[j] => i = j
              /\ Range(edges) =
                    {[id |-> ToString(e[2]) \o "-" \o ToString(e[1]),
                      source |-> e[2], target |-> e[1]] :
                        e \in {x \in WorkflowTable(last') : x[1] \in nodes}}]_vars

\* The period view returned the edge "1-2" for the stored row (2 depends on 1)
\* along with a second edge.
C18_Witness ==
    /\ last.op = "get_period_workflow" /\ last.status = 200
    /\ <<2, 1>> \in deps
    /\ Len(last.detail.edges) = 2
    /\ \E i \in 1..2 : last.detail.edges[i] = [id |-> "1-2", source |-> 1, target |-> 2]

\* ---------------------------------------------------------------- audit: claims
\* C19: an accepted dependency edit of a task (update_task_dependencies, or
\* update_task) writes a 'dependencies_updated' audit record iff the task's
\* dependency id set changed, with the sets before and after the call as
\* old_value and new_value.
C19_AuditIffChanged ==
    [][(last'.op \in {"update_task_dependencies", "update_task"} /\ last'.status = 200) =>
          LET before == dependencies(deps, last'.id)
              after == dependencies(deps', last'.id)
          IN  audit' = IF before # after
                       THEN Append(audit, [task_id |-> last'.id,
                                           action |-> "dependencies_updated",
                                           old_value |-> sorted(before),
                                           new_value |-> sorted(after)])
                       ELSE audit]_vars

\* ---------------------------------------------------------- equivalence: claims
\* C20: on isomorphic graphs update_task_dependencies and
\* update_template_dependencies answer the same request alike: both accept or
\* both reject it, a rejection names the corresponding id, and the resulting
\* edge sets are isomorphic again.
C20_SameRules ==
    /\ [](last.op # "update_task_dependencies" =>
            tdeps = {<<iso(e[1]), iso(e[2])>> : e \in deps})
    /\ [][last.op = "update_task_dependencies" =>
            /\ last'.status = last.status
            /\ last'.detail = iso(last.detail)
            /\ tdeps' = {<<iso(e[1]), iso(e[2])>> : e \in deps}]_vars

\* Both editors rejected a list whose second id closes a cycle through two
\* edges, naming it.
C20_Witness ==
    /\ last.op = "update_template_dependencies" /\ last.status = 400
    /\ Len(last.cands) = 2 /\ last.detail = last.cands[2]
    /\ <<last.cands[2], last.id>> \notin tdeps
    /\ <<iso(last.cands[2]), iso(last.id)>> \notin deps
    /\ Reaches(deps, iso(last.cands[2]), iso(last.id))

\* -------------------------------------------------------- creation order: claims
\* C21: a roll-forward creates its tasks in ascending template sort_order, so
\* of two of its tasks the one whose template has the smaller sort_order has
\* the smaller id.
C21_SortOrderAscending ==
    [][RolledForward =>
          \A j, k \in DOMAIN tasks' \ DOMAIN tasks :
              templates[tasks'[j].template_id].sort_order
                  < templates[tasks'[k].template_id].sort_order => j < k]_vars

\* ------------------------------------------------------ exact cycle check: claims
\* C22: on an acyclic graph the cycle check of update_task_dependencies is
\* exact: candidate d for task N is rejected iff d = N or N is reachable from
\* d through the stored edges, and a call on an existing task gets the 400
\* iff the graph with N's dependencies replaced by the request would have a
\* cycle (N's own outgoing edges, which the edit replaces, never cause a
\* rejection).
C22_CheckExact ==
    /\ [](\A n \in DOMAIN tasks, d \in 1..nextId.task :
             has_circular_dependency(DOMAIN tasks, deps, d, n, {}).found
                 <=> (d = n \/ Reaches(deps, d, n)))
    /\ [][(IsEdit(last') /\ last'.id \in DOMAIN tasks) =>
             (last'.status = 400
                 <=> ~Acyclic(replace_dependencies(deps, last'.id,
                                  Range(last'.cands) \cap DOMAIN tasks)))]_vars

\* An edit was accepted although the edited task had a dependency that has a
\* path back to one of the requested ids: the audit row holds the replaced
\* edge, and the requested prerequisite is still below the old one.
C22_Witness ==
    /\ IsEdit(last) /\ last.status = 200 /\ audit # <<>>
    /\ LET row == audit[Len(audit)]
       IN  /\ row.task_id = last.id
           /\ \E o \in Range(row.old_value), d \in Range(last.cands) :
                 /\ o # d
                 /\ <<last.id, o>> \notin deps
                 /\ Reaches(deps, o, d)

\* ---------------------------------------------------- cycle check ends: claims
\* C23: has_circular_dependency returns on every finite graph, cycles and
\* self-loops included; no id is expanded twice; and the value returned is
\* "start is the target or the target is reachable from start" (which is
\* what the one-shot has_circular_dependency computes).
C23_Terminates ==
    /\ <>Returned
    /\ [](\A i, j \in 1..Len(last.expanded) :
             last.expanded[i] = last.expanded[j] => i = j)
    /\ [](Returned =>
             /\ last.ret[1] <=> (last.start = last.target_id
                                   \/ Reaches(deps, last.start, last.target_id))
             /\ last.ret[1] = has_circular_dependency(DOMAIN tasks, deps, last.start,
                                                      last.target_id, {}).found)

\* A search over a graph with a self-loop and a cycle of two that returned
\* False after it met both again.
C23_Witness ==
    /\ Returned /\ ~last.ret[1]
    /\ \E a, b \in DOMAIN tasks :
          /\ a # b /\ a # last.target_id /\ b # last.target_id
          /\ {<<a, a>>, <<a, b>>, <<b, a>>} \subseteq deps
          /\ last.expanded = <<a, b>>

\* ------------------------------------------------------- edit frame: claims
\* C24: update_task_dependencies(N, X) changes only the outgoing edges of N:
\* the dependency set of every other task and the row of every task (status,
\* due date, period, position; N included) and every period are as before,
\* and a call that fails changes no edge at all.
C24_OnlyOutgoingEdges ==
    [][IsEdit(last') =>
          /\ tasks' = tasks
          /\ periods' = periods
          /\ \A t \in DOMAIN tasks \ {last'.id} :
                dependencies(deps', t) = dependencies(deps, t)
          /\ last'.status # 200 => deps' = deps]_vars

\* An accepted edit replaced the dependencies of a task that another task
\* depends on, while a third edge stands elsewhere; tasks are complete and
\* dated.
C24_Witness ==
    /\ IsEdit(last) /\ last.status = 200 /\ audit # <<>>
    /\ audit[Len(audit)].old_value # <<>>
    /\ \E t \in DOMAIN tasks : <<t, last.id>> \in deps
    /\ \E t \in DOMAIN tasks :
          tasks[t].status = "complete" /\ tasks[t].due_date # None

\* ------------------------------------------------------ fixed due dates: claims
\* C25: after a roll-forward, an update_period that changes the period's
\* target_close_date, or a template edit that changes days_offset, leaves the
\* due date of every existing task as it was.
C25_DueDateFixed ==
    [][\A t \in DOMAIN tasks :
          t \in DOMAIN tasks' /\ tasks'[t].due_date = tasks[t].due_date]_vars

\* The period's target_close_date was set by an update_period, and a task is
\* due on another day than a roll-forward would give it now.
C25_Witness ==
    /\ last.op = "update_period" /\ last.status = 200
    /\ \E t \in DOMAIN tasks :
          LET period == periods[tasks[t].period_id]
              days_offset == templates[tasks[t].template_id].days_offset[1]
          IN  /\ period.target_close_date # None
              /\ tasks[t].due_date # Some(_compute_due_datetime(period, days_offset))

\* -------------------------------------------------- referenced templates: claims
\* C26: a template that a task was created from, or that another template
\* depends on, is never deleted by a template operation: it is a template
\* after the step too, and the task's template_id still names it.
C26_ReferencedNeverDeleted ==
    [][\A t \in DOMAIN templates :
          /\ (\E k \in DOMAIN tasks : tasks[k].template_id = t)
                 => /\ t \in DOMAIN templates'
                    /\ \A k \in DOMAIN tasks :
                          tasks[k].template_id = t => tasks'[k].template_id = t
          /\ (\E e \in tdeps : e[1] # t /\ e[2] = t) => t \in DOMAIN templates']_vars

\* ------------------------------------------------------ interleaved edits: claims
\* C27: when two update_task_dependencies requests on different tasks both
\* run their cycle checks before either commits, they do not both succeed
\* and leave a cycle in the committed graph.
C27_AcyclicUnderInterleaving ==
    (Interleaved /\ \A r \in Requests : last.reqs[r].status = 200) => Acyclic(deps)

\* ------------------------------------------------------ dashboard scope: claims
\* C28: every task that get_dashboard_stats lists when it is called without
\* period_id (blocked, review, at-risk, critical path and its dependents)
\* belongs to a period whose status is in_progress or under_review; with no
\* such period the lists are empty.
C28_ActivePeriodsOnly ==
    (IsStats(last) /\ last.id = 0) =>
        LET out == last.detail
            path == out.critical_path_tasks
            listed == Range(out.blocked_tasks) \cup Range(out.review_tasks)
                          \cup Range(out.at_risk_tasks)
                          \cup {path[i].id : i \in 1..Len(path)}
                          \cup UNION {Range(path[i].dependents) : i \in 1..Len(path)}
        IN  \A t \in listed :
               periods[tasks[t].period_id].status \in {"in_progress", "under_review"}

\* ----------------------------------------------------------- timestamps: claims
\* C29: across update_task and bulk_update_tasks status changes, started_at
\* is set when a task first becomes in_progress and completed_at when it
\* first becomes complete, to the time of that request; a timestamp that is
\* set is never changed or cleared, also when the task leaves the status and
\* enters it again; and every complete task has completed_at.
C29_Timestamps ==
    /\ [](\A t \in DOMAIN tasks :
             /\ tasks[t].status = "complete" => tasks[t].completed_at # None
             /\ tasks[t].status = "in_progress" => tasks[t].started_at # None)
    /\ [][\A t \in DOMAIN tasks :
             /\ tasks[t].started_at # None => tasks'[t].started_at = tasks[t].started_at
             /\ tasks[t].completed_at # None => tasks'[t].completed_at = tasks[t].completed_at
             /\ (tasks[t].started_at = None /\ tasks'[t].started_at # None) =>
                    /\ tasks[t].status # "in_progress" /\ tasks'[t].status = "in_progress"
                    /\ tasks'[t].started_at = Some(last'.detail.now)
             /\ (tasks[t].completed_at = None /\ tasks'[t].completed_at # None) =>
                    /\ tasks[t].status # "complete" /\ tasks'[t].status = "complete"
                    /\ tasks'[t].completed_at = Some(last'.detail.now)]_vars

\* A task completed by the first request, moved back to in_progress by the
\* second and completed again by a bulk update at time MaxClock: completed_at
\* is still the time of the first request.
C29_Witness ==
    /\ last.op = "bulk_update_tasks" /\ last.status = 200
    /\ last.detail.now = MaxClock
    /\ \E t \in Range(last.cands) \cap DOMAIN tasks :
          /\ tasks[t].status = "complete"
          /\ tasks[t].completed_at = Some(1)
          /\ tasks[t].started_at = Some(MaxClock - 1)
          /\ audit[Len(audit)].task_id = t
          /\ audit[Len(audit)].old_value = "in_progress"

\* ------------------------------------------------------- dangling edges: claims
\* C30: in every response of get_period_workflow and get_template_workflow
\* the source and the target of every edge are ids of nodes of the same
\* response.
C30_NoDanglingEdge ==
    (last.op \in {"get_period_workflow", "get_template_workflow"} /\ last.status = 200) =>
        LET nodes == Range(last.detail.nodes)
            edges == last.detail.edges
        IN  \A i \in 1..Len(edges) :
               edges[i].source \in nodes /\ edges[i].target \in nodes
====
